---- MODULE Spec2Model ----
(***************************************************************************)
(* Model of the eHook webhook inspector: the capture route                 *)
(* (app/api/webhook/[uuid]/route.ts), the event server actions             *)
(* (app/actions/webhook.ts) and the settings server actions                *)
(* (app/actions/settings.ts), over a Redis-like Store holding one sorted   *)
(* set of serialized events and one settings string per endpoint uuid.     *)
(***************************************************************************)
EXTENDS Integers, Sequences, FiniteSets, TLC

(***************************************************************************)
(* Bounds of the model.                                                    *)
(***************************************************************************)
\* number of capture requests (one handler invocation each)
NumHandlers == 2
\* number of operations (captures, deletes, settings saves) that are started
MaxOps == 2
\* number of viewer sessions (browser tabs showing the Home page)
NumViewers == 1
\* number of times a viewer session's Inbox is given another uuid
MaxSwitches == 1

(***************************************************************************)
(* Program constants.                                                      *)
(***************************************************************************)
\* route.ts: if (count > 50)
MaxEvents == 50

Handlers == 1..NumHandlers
Viewers == 1..NumViewers
UUIDS == {"a", "b"}

(***************************************************************************)
(* Values.  A JS value that the code treats as data is a record            *)
(* [kind, val]; an object used as a string map (headers, query) is a set   *)
(* of <<name, value>> pairs with distinct names.                           *)
(***************************************************************************)
Null == [kind |-> "null", val |-> ""]
Text(s) == [kind |-> "text", val |-> s]
Json(s) == [kind |-> "json", val |-> s]
Form(s) == [kind |-> "form", val |-> s]

\* { ...base, ...over }: later keys replace earlier keys of the same name
ObjSpread(base, over) ==
    {p \in base : ~ \E q \in over : q[1] = p[1]} \cup over

\* JSON.parse on the texts the model uses: ok = FALSE stands for a SyntaxError
JSONparse(text) ==
    CASE text = "{\"x\":1}" -> [ok |-> TRUE, value |-> Json("{x:1}")]
      [] text = "{\"ok\":true}" -> [ok |-> TRUE, value |-> Json("{ok:true}")]
      [] text = "false" -> [ok |-> TRUE, value |-> Json("false")]
      [] OTHER -> [ok |-> FALSE, value |-> Null]

\* the content types the model uses
ContentTypes ==
    { "", "application/json", "application/json; charset=utf-8",
      "application/x-www-form-urlencoded", "text/plain",
      "text/plain; format=application/json",
      "multipart/related; type=\"text/xml\"", "application/octet-stream" }

\* String.prototype.includes on the content types the model uses
Includes(contentType, needle) ==
    CASE needle = "application/json" ->
            contentType \in { "application/json", "application/json; charset=utf-8",
                              "text/plain; format=application/json" }
      [] needle = "application/x-www-form-urlencoded" ->
            contentType = "application/x-www-form-urlencoded"
      [] needle = "text/" ->
            contentType \in { "text/plain", "text/plain; format=application/json",
                              "multipart/related; type=\"text/xml\"" }
      [] OTHER -> FALSE

(***************************************************************************)
(* Inbound requests: one per accepted method, covering every branch of the *)
(* body parser.                                                            *)
(***************************************************************************)
Req(m, ct, payload, search) ==
    [method |-> m, contentType |-> ct, payload |-> payload, search |-> search]

Requests ==
    { Req("GET", "", "", "?x=1"),
      Req("POST", "application/json", "{\"x\":1}", ""),
      Req("PUT", "application/x-www-form-urlencoded", "key1=value1", ""),
      Req("DELETE", "application/json", "{bad", ""),
      Req("PATCH", "text/plain", "hello", ""),
      Req("OPTIONS", "", "", ""),
      Req("HEAD", "application/octet-stream", "raw", "") }

\* route.ts 17-20: the request's headers copied into a plain object
RequestHeaders(req) ==
    IF req.contentType = "" THEN {} ELSE {<<"content-type", req.contentType>>}

\* route.ts 23-27: the URL's search parameters copied into a plain object
RequestQuery(req) ==
    IF req.search = "?x=1" THEN {<<"x", "1">>} ELSE {}

\* request.url
RequestUrl(uuid, req) == <<"/api/webhook/", uuid, req.search>>

\* ParseBody with the text branch written as the last branch is:
\* body = text || null
ParseBodyEmptyTextNull(req) ==
    IF Includes(req.contentType, "application/json")
    THEN IF JSONparse(req.payload).ok THEN JSONparse(req.payload).value ELSE Null
    ELSE IF Includes(req.contentType, "application/x-www-form-urlencoded")
    THEN Form(req.payload)
    ELSE IF req.payload = "" THEN Null ELSE Text(req.payload)

\* route.ts 29-49: the body by declared content type; a parse error gives null
ParseBody(req) ==
    IF Includes(req.contentType, "application/json")
    THEN IF JSONparse(req.payload).ok THEN JSONparse(req.payload).value ELSE Null
    ELSE IF Includes(req.contentType, "application/x-www-form-urlencoded")
    THEN Form(req.payload)
    ELSE IF Includes(req.contentType, "text/")
    THEN Text(req.payload)
    ELSE IF req.payload = "" THEN Null ELSE Text(req.payload)

(***************************************************************************)
(* Events and their serialized form.  JSON.stringify writes the fields in  *)
(* the order of the object literal; the member string therefore starts     *)
(* with the id.                                                            *)
(***************************************************************************)
WebhookEvent(id, uuid, req, body, timestamp) ==
    [id |-> id, uuid |-> uuid, method |-> req.method, url |-> RequestUrl(uuid, req),
     headers |-> RequestHeaders(req), body |-> body, query |-> RequestQuery(req),
     timestamp |-> timestamp]

\* JSON.stringify(webhookEvent)
StringifyEvent(e) ==
    <<e.id, e.uuid, e.method, e.url, e.headers, e.body, e.query, e.timestamp>>

\* JSON.parse(member) (done by the Store client or by the server action)
ParseEvent(m) ==
    [id |-> m[1], uuid |-> m[2], method |-> m[3], url |-> m[4], headers |-> m[5],
     body |-> m[6], query |-> m[7], timestamp |-> m[8]]

(***************************************************************************)
(* The Store's sorted set: a sequence of [score, member] kept in ascending *)
(* order of score, members of equal score in lexicographic order of the    *)
(* member string.  Member strings of two events first differ inside the    *)
(* id, so the id decides.                                                  *)
(***************************************************************************)
MemberLess(m1, m2) == m1[1] < m2[1]

EntryLess(x, y) ==
    \/ x.score < y.score
    \/ x.score = y.score /\ MemberLess(x.member, y.member)

IsSorted(s) == \A i \in 1..(Len(s) - 1) : EntryLess(s[i], s[i + 1])

\* ZADD key score member (the member is new: every event has a fresh id)
ZAdd(s, score, member) ==
    LET x == [score |-> score, member |-> member]
        k == Cardinality({i \in 1..Len(s) : EntryLess(s[i], x)})
    IN  SubSeq(s, 1, k) \o <<x>> \o SubSeq(s, k + 1, Len(s))

\* ZCARD key
ZCard(s) == Len(s)

\* ZREMRANGEBYRANK key 0 stop, for stop >= 0
ZRemRangeByRank(s, stop) ==
    IF stop + 1 >= Len(s) THEN <<>> ELSE SubSeq(s, stop + 2, Len(s))

\* ZRANGE key 0 -1: the members in ascending order
ZRange(s) == [i \in 1..Len(s) |-> s[i].member]

\* ZRANGE key 0 -1 REV: the members in descending order
ZRangeRev(s) == [i \in 1..Len(s) |-> s[Len(s) + 1 - i].member]

\* ZREM key member
ZRem(s, member) ==
    LET Keep(x) == x.member # member
    IN  SelectSeq(s, Keep)

(***************************************************************************)
(* Settings and the capture response.                                      *)
(***************************************************************************)
Settings(status, body, headers) ==
    [responseStatus |-> status, responseBody |-> body, responseHeaders |-> headers]

\* what the settings panel can send to saveWebhookSettings
SettingsStatuses == {201, 204, 99}
SettingsBodies == {"{\"ok\":true}", "pong"}
SettingsHeaders == {{<<"X-Test", "1">>}, {<<"Content-Type", "text/plain">>}}
SettingsInputs ==
    {Settings(st, b, hd) : st \in SettingsStatuses, b \in SettingsBodies,
                           hd \in SettingsHeaders}

\* StringifySettings leaving the headers out
StringifySettingsNoHeaders(s) == <<s.responseStatus, s.responseBody, {}>>

\* JSON.stringify(settings)
StringifySettings(s) == <<s.responseStatus, s.responseBody, s.responseHeaders>>

\* JSON.parse(settings)
ParseSettings(t) == Settings(t[1], t[2], t[3])

\* the value of a key that was never set
NoValue == <<>>

\* what a call of getWebhookSettings gives its caller: state "present" with
\* the stored settings or state "absent" (null); readFailed tells that the
\* Store read threw inside it, threw that the call itself threw
SettingsResult(state, value, readFailed, threw) ==
    [state |-> state, value |-> value, readFailed |-> readFailed, threw |-> threw]

\* getWebhookSettings without its try/catch: a Store error leaves the call
getWebhookSettingsUncaught(stored, readOk) ==
    IF ~readOk THEN SettingsResult("absent", NoValue, TRUE, TRUE)
    ELSE IF stored # NoValue THEN SettingsResult("present", stored, FALSE, FALSE)
    ELSE SettingsResult("absent", NoValue, FALSE, FALSE)

\* settings.ts 22-36: a Store error is caught and logged, and null returned
getWebhookSettings(stored, readOk) ==
    IF ~readOk THEN SettingsResult("absent", NoValue, TRUE, FALSE)
    ELSE IF stored # NoValue THEN SettingsResult("present", stored, FALSE, FALSE)
    ELSE SettingsResult("absent", NoValue, FALSE, FALSE)

Response(status, headers, body) ==
    [status |-> status, headers |-> headers, body |-> body]

\* DefaultResponse with another status
DefaultResponseAccepted ==
    Response(202, {<<"Content-Type", "application/json">>},
             Json("{success:true,message:Webhook received}"))

\* route.ts 107-110
DefaultResponse ==
    Response(200, {<<"Content-Type", "application/json">>},
             Json("{success:true,message:Webhook received}"))

\* ErrorResponse with the caught error's message in the body
ErrorResponseDetailed ==
    Response(500, {<<"Content-Type", "application/json">>},
             Json("{success:false,error:Store request failed}"))

\* route.ts 113-116
ErrorResponse ==
    Response(500, {<<"Content-Type", "application/json">>},
             Json("{success:false,error:Internal server error}"))

\* status codes that a Response carrying a body may not have
NullBodyStatuses == {101, 103, 204, 205, 304}

\* NextResponse.json(body, {status, headers}) constructs a Response: the
\* constructor throws a RangeError for a status outside 200..599 and a
\* TypeError for a body together with a null-body status
NextResponseJsonThrows(status) ==
    \/ status < 200
    \/ status > 599
    \/ status \in NullBodyStatuses

\* route.ts 93-98
ResponseBody(text) ==
    IF JSONparse(text).ok THEN JSONparse(text).value ELSE Text(text)

\* route.ts 88-91
ResponseHeaders(configured) ==
    ObjSpread({<<"Content-Type", "application/json">>}, configured)

\* route.ts 84-110: the response built from what getWebhookSettings gave;
\* threw = TRUE when an exception reaches the handler's catch block
BuildResponse(result) ==
    IF result.threw
    THEN [threw |-> TRUE, response |-> ErrorResponse]
    ELSE IF result.state = "present"
    THEN LET s == ParseSettings(result.value)
         IN  IF NextResponseJsonThrows(s.responseStatus)
             THEN [threw |-> TRUE, response |-> ErrorResponse]
             ELSE [threw |-> FALSE,
                   response |-> Response(s.responseStatus,
                                         ResponseHeaders(s.responseHeaders),
                                         ResponseBody(s.responseBody))]
    ELSE [threw |-> FALSE, response |-> DefaultResponse]

(***************************************************************************)
(* State.                                                                  *)
(***************************************************************************)
VARIABLES
    now,        \* the wall clock, as last read
    events,     \* Store: uuid -> sorted set webhook:<uuid>:events
    settings,   \* Store: uuid -> string webhook:<uuid>:settings, or NoValue
    channel,    \* Broadcast: uuid -> events emitted on webhook:<uuid>, in order
    pc,         \* handler -> position in handleWebhook
    local,      \* handler -> its uuid, request, webhookEvent and count
    response,   \* handler -> the response it returned
    sent,       \* handler -> number of responses returned
    del,        \* the deleteWebhookEvent call in progress or last finished
    ops,        \* number of operations started
    start,      \* handler -> clock when its request arrived
    fault,      \* handler -> the step that threw, or "none"
    seen,       \* handler -> what its settings read returned
    appended,   \* uuid -> ids in the order they were appended to the log
    overlapped, \* some capture ran while another capture was in flight
    untrimmed,  \* uuid -> captures that appended and did not finish their trim
    erased,     \* uuid -> ids removed by deleteWebhookEvent
    saved,      \* uuid -> the settings saved with success, in order
    watch,      \* handler -> viewers subscribed to its topic since it arrived
    vuuid,      \* viewer -> the uuid prop of its Inbox ("" before Home set it)
    shown,      \* viewer -> the events state of its Inbox (the displayed log)
    pushes,     \* viewer -> pushes delivered to it and not yet given to onData
    fetches,    \* viewer -> its getWebhookEvents calls that have not resolved
    selected,   \* viewer -> the selectedEvent state of its Home, or NoEvent
    vdel,       \* viewer -> its delete-one action in progress or last finished
    searchQuery,\* viewer -> the searchQuery state of its Inbox
    handled,    \* viewer -> the pushes onData was called with, in order, each
                \*           with the uuid the Inbox had then
    delivered,  \* viewer -> every push delivered to it, in order
    subs,       \* viewer -> the uuids it has subscribed to
    applied,    \* viewer -> "ok" or "failed" once a fetch for its present
                \*           uuid has set the log, "no" before
    switched,   \* viewer -> number of times its Inbox was given another uuid
    probe,      \* a request given to the body parser, and the body it gave
    ret,        \* the last return of a server action, numbered
    status,     \* viewer -> the status state of its Home (the connection signal)
    link        \* viewer -> the state of its subscription to the Broadcast Channel

\* the Inbox and Home state that only the viewer's own steps change
sessionVars == <<vuuid, shown, fetches, selected, searchQuery, handled, subs,
                 applied, switched>>
clientVars == <<sessionVars, pushes, delivered, vdel>>
auxVars == <<probe, ret, status, link>>
restVars == <<saved, watch, clientVars, auxVars>>

vars == <<now, events, settings, channel, pc, local, response, sent, del, ops,
          start, fault, seen, appended, overlapped, untrimmed, erased, saved,
          watch, vuuid, shown, pushes, fetches, selected, vdel, searchQuery,
          handled, delivered, subs, applied, switched, probe,
          ret, status, link>>

storeVars == <<events, settings, channel>>
handlerVars == <<pc, local, response, sent, start, fault, seen>>

NoRequest == Req("", "", "", "")
NoEvent == WebhookEvent(0, "", NoRequest, Null, 0)
NoResponse == Response(0, {}, Null)
NoLocal == [uuid |-> "", request |-> NoRequest, webhookEvent |-> NoEvent, count |-> 0]
Unread == SettingsResult("unread", NoValue, FALSE, FALSE)
NoDelete == [pc |-> "idle", uuid |-> "", eventId |-> 0, member |-> <<>>,
             result |-> FALSE, present |-> FALSE, threw |-> FALSE]
NoViewerDelete == [state |-> "none", from |-> "", uuid |-> "", eventId |-> 0,
                   selectedEventId |-> 0]
NoProbe == [request |-> NoRequest, state |-> "none", body |-> Null]
\* no server action has returned yet
NoReturn == [n |-> 0, action |-> "", uuid |-> "", failed |-> FALSE,
             threw |-> FALSE, bool |-> FALSE, events |-> <<>>,
             settings |-> Unread]

(***************************************************************************)
(* Initial logs.  The log of endpoint "a" holds what earlier captures left *)
(* there; every event of it was appended by ZADD with its timestamp as     *)
(* score.  first..last are the ranks in capture order.                     *)
(***************************************************************************)
EarlierRequest == Req("POST", "application/json", "{\"x\":1}", "")

\* the idx-th earlier capture: its id and timestamp
\*   "spread": one capture per millisecond, ids ascending
\*   "tie":    the first two captures in the same millisecond, the second
\*             with the smaller id
\*   "burst":  all captures in the same millisecond
EarlierEvent(pattern, idx) ==
    LET id == IF pattern = "tie" /\ idx = 1 THEN 102
              ELSE IF pattern = "tie" /\ idx = 2 THEN 101
              ELSE 100 + idx
        ts == IF pattern = "burst" THEN 1
              ELSE IF pattern = "tie" /\ idx > 1 THEN idx - 1
              ELSE idx
    IN  WebhookEvent(id, "a", EarlierRequest, ParseBody(EarlierRequest), ts)

\* the sorted set after ZADD of the first n earlier captures
EarlierLog(pattern, n) ==
    LET Entry(i) == [score |-> EarlierEvent(pattern, i).timestamp,
                     member |-> StringifyEvent(EarlierEvent(pattern, i))]
        Rank(i) == Cardinality({j \in 1..n : EntryLess(Entry(j), Entry(i))})
    IN  [k \in 1..n |-> Entry(CHOOSE i \in 1..n : Rank(i) = k - 1)]

EarlierIds(pattern, n) == [i \in 1..n |-> EarlierEvent(pattern, i).id]

InitialLogs ==
    { <<"spread", 0>>, <<"tie", MaxEvents>>, <<"burst", MaxEvents>> }

\* no Settings record, no request under way, nothing deleted or saved yet
IdleInit ==
        /\ settings = [u \in UUIDS |-> NoValue]
        /\ channel = [u \in UUIDS |-> <<>>]
        /\ pc = [h \in Handlers |-> "idle"]
        /\ local = [h \in Handlers |-> NoLocal]
        /\ response = [h \in Handlers |-> NoResponse]
        /\ sent = [h \in Handlers |-> 0]
        /\ del = NoDelete
        /\ ops = 0
        /\ start = [h \in Handlers |-> 0]
        /\ fault = [h \in Handlers |-> "none"]
        /\ seen = [h \in Handlers |-> Unread]
        /\ untrimmed = [u \in UUIDS |-> 0]
        /\ erased = [u \in UUIDS |-> {}]
        /\ saved = [u \in UUIDS |-> <<>>]
        /\ watch = [h \in Handlers |-> {}]
        /\ ret = NoReturn

\* the Store and the handlers, with the log il of endpoint "a"
ServerInit(il) ==
        /\ events = [u \in UUIDS |-> IF u = "a" THEN EarlierLog(il[1], il[2]) ELSE <<>>]
        /\ appended = [u \in UUIDS |-> IF u = "a" THEN EarlierIds(il[1], il[2]) ELSE <<>>]
        /\ now = IF il[2] = 0 THEN 0 ELSE EarlierEvent(il[1], il[2]).timestamp
        /\ overlapped = (il[1] = "burst")
        /\ IdleInit

\* no viewer session has its uuid yet: Home renders "Loading..." and no Inbox
ClientInit ==
    /\ vuuid = [v \in Viewers |-> ""]
    /\ shown = [v \in Viewers |-> <<>>]
    /\ pushes = [v \in Viewers |-> <<>>]
    /\ fetches = [v \in Viewers |-> <<>>]
    /\ selected = [v \in Viewers |-> NoEvent]
    /\ vdel = [v \in Viewers |-> NoViewerDelete]
    /\ searchQuery = [v \in Viewers |-> ""]
    /\ handled = [v \in Viewers |-> <<>>]
    /\ delivered = [v \in Viewers |-> <<>>]
    /\ subs = [v \in Viewers |-> {}]
    /\ applied = [v \in Viewers |-> "no"]
    /\ switched = [v \in Viewers |-> 0]
    /\ status = [v \in Viewers |-> "connecting"]
    /\ link = [v \in Viewers |-> "none"]

Init ==
    /\ \E il \in InitialLogs : ServerInit(il)
    /\ ClientInit
    /\ probe = NoProbe

(***************************************************************************)
(* handleWebhook (route.ts 11-118).  Every await on the Store or on the    *)
(* Broadcast Channel is one step, which succeeds or throws.                *)
(***************************************************************************)
InFlight(h) == pc[h] \notin {"idle", "done"}

\* inbox.tsx 33-35: channels: [`webhook:${uuid}`], the channel of the Inbox's
\* uuid prop; no Inbox is rendered while Home has no uuid
Channels(v) == IF vuuid[v] = "" THEN {} ELSE {vuuid[v]}

\* Subscribers when every Inbox listens to one channel shared by all uuids
SubscribersOfSharedChannel(u) == {v \in Viewers : vuuid[v] # ""}

\* the viewer sessions that the Broadcast Channel delivers an emit on
\* webhook:<u> to
Subscribers(u) == {v \in Viewers : u \in Channels(v)}

\* uuidv4(): an id no other event has
FreshIds(h) == {h}

\* the requests the h-th arrival is drawn from: the first arrival is any of
\* Requests, a later one (which may run concurrently with it) one of two
LaterRequests ==
    { Req("GET", "", "", "?x=1"),
      Req("POST", "application/json", "{\"x\":1}", "") }

RequestsOf(h) == IF h = 1 THEN Requests ELSE LaterRequests

\* route.ts 69-72: score: timestamp
Score(ev) == ev.timestamp

\* TrimStop off by one: keeps 51
TrimStopKeepsOneMore(cnt) == cnt - (MaxEvents + 2)

\* route.ts 77: the last rank removed, count - 51
TrimStop(cnt) == cnt - (MaxEvents + 1)

\* Catch as it would be without the try/catch: the error leaves the handler
\* and no response is returned
CatchRethrows(h, step) ==
    /\ pc' = [pc EXCEPT ![h] = "thrown"]
    /\ fault' = [fault EXCEPT ![h] = step]
    /\ UNCHANGED <<response, sent>>

\* route.ts 111-117: the catch block logs and returns the 500 response
Catch(h, step) ==
    /\ pc' = [pc EXCEPT ![h] = "done"]
    /\ response' = [response EXCEPT ![h] = ErrorResponse]
    /\ sent' = [sent EXCEPT ![h] = @ + 1]
    /\ fault' = [fault EXCEPT ![h] = step]

\* return NextResponse.json(...)
Return(h, resp) ==
    /\ pc' = [pc EXCEPT ![h] = "done"]
    /\ response' = [response EXCEPT ![h] = resp]
    /\ sent' = [sent EXCEPT ![h] = @ + 1]
    /\ UNCHANGED fault

\* route.ts 13-63: the request arrives, its body is parsed, the clock is read
\* once and the event is built.  Requests are numbered in order of arrival.
Receive(h) ==
    /\ pc[h] = "idle"
    /\ IF h = 1 THEN TRUE ELSE pc[h - 1] # "idle"
    /\ ops < MaxOps
    /\ \E u \in UUIDS, req \in RequestsOf(h), id \in FreshIds(h), tick \in {0, 1} :
          LET timestamp == now + tick
              webhookEvent == WebhookEvent(id, u, req, ParseBody(req), timestamp)
          IN  /\ now' = timestamp
              /\ start' = [start EXCEPT ![h] = now]
              /\ local' = [local EXCEPT ![h] =
                              [uuid |-> u, request |-> req,
                               webhookEvent |-> webhookEvent, count |-> 0]]
    /\ pc' = [pc EXCEPT ![h] = "zadd"]
    /\ ops' = ops + 1
    /\ overlapped' = (overlapped \/ \E g \in Handlers : g # h /\ InFlight(g))
    /\ watch' = [watch EXCEPT ![h] = Subscribers(local'[h].uuid)]
    /\ UNCHANGED <<storeVars, response, sent, del, fault, seen, appended,
                   untrimmed, erased, saved, clientVars, auxVars>>

\* Zadd with the error of the ZADD swallowed: the handler goes on
ZaddIgnoringError(h) ==
    /\ pc[h] = "zadd"
    /\ LET u == local[h].uuid
           ev == local[h].webhookEvent
       IN  \/ /\ events' = [events EXCEPT ![u] = ZAdd(@, Score(ev), StringifyEvent(ev))]
              /\ appended' = [appended EXCEPT ![u] = Append(@, ev.id)]
              /\ untrimmed' = [untrimmed EXCEPT ![u] = @ + 1]
           \/ UNCHANGED <<events, appended, untrimmed>>
    /\ pc' = [pc EXCEPT ![h] = "zcard"]
    /\ UNCHANGED <<now, settings, channel, local, response, sent, fault, del,
                   ops, start, seen, overlapped, erased, restVars>>

\* route.ts 69-72: await redis.zadd(redisKey, {score, member})
Zadd(h) ==
    /\ pc[h] = "zadd"
    /\ LET u == local[h].uuid
           ev == local[h].webhookEvent
       IN  \/ /\ events' = [events EXCEPT ![u] = ZAdd(@, Score(ev), StringifyEvent(ev))]
              /\ appended' = [appended EXCEPT ![u] = Append(@, ev.id)]
              /\ untrimmed' = [untrimmed EXCEPT ![u] = @ + 1]
              /\ pc' = [pc EXCEPT ![h] = "zcard"]
              /\ UNCHANGED <<response, sent, fault>>
           \/ /\ Catch(h, "zadd")
              /\ UNCHANGED <<events, appended, untrimmed>>
    /\ UNCHANGED <<now, settings, channel, local, del, ops, start, seen,
                   overlapped, erased, restVars>>

\* route.ts 75-76: const count = await redis.zcard(redisKey); if (count > 50)
Zcard(h) ==
    /\ pc[h] = "zcard"
    /\ LET u == local[h].uuid
           cnt == ZCard(events[u])
       IN  \/ /\ local' = [local EXCEPT ![h].count = cnt]
              /\ IF cnt > MaxEvents
                 THEN /\ pc' = [pc EXCEPT ![h] = "trim"]
                      /\ UNCHANGED untrimmed
                 ELSE /\ pc' = [pc EXCEPT ![h] = "emit"]
                      /\ untrimmed' = [untrimmed EXCEPT ![u] = @ - 1]
              /\ UNCHANGED <<response, sent, fault>>
           \/ /\ Catch(h, "zcard")
              /\ UNCHANGED <<local, untrimmed>>
    /\ UNCHANGED <<now, storeVars, del, ops, start, seen, appended, overlapped,
                   erased, restVars>>

\* route.ts 77: await redis.zremrangebyrank(redisKey, 0, count - 51)
Trim(h) ==
    /\ pc[h] = "trim"
    /\ LET u == local[h].uuid
       IN  \/ /\ events' = [events EXCEPT
                              ![u] = ZRemRangeByRank(@, TrimStop(local[h].count))]
              /\ untrimmed' = [untrimmed EXCEPT ![u] = @ - 1]
              /\ pc' = [pc EXCEPT ![h] = "emit"]
              /\ UNCHANGED <<response, sent, fault>>
           \/ /\ Catch(h, "trim")
              /\ UNCHANGED <<events, untrimmed>>
    /\ UNCHANGED <<now, settings, channel, local, del, ops, start, seen,
                   appended, overlapped, erased, restVars>>

\* route.ts 81: await realtime.channel(`webhook:${uuid}`).emit(...)
Emit(h) ==
    /\ pc[h] = "emit"
    /\ LET u == local[h].uuid
           ev == local[h].webhookEvent
       IN  \/ /\ channel' = [channel EXCEPT ![u] = Append(@, ev)]
              /\ pushes' = [v \in Viewers |->
                               IF v \in Subscribers(u) THEN Append(pushes[v], ev)
                               ELSE pushes[v]]
              /\ delivered' = [v \in Viewers |->
                                  IF v \in Subscribers(u) THEN Append(delivered[v], ev)
                                  ELSE delivered[v]]
              /\ pc' = [pc EXCEPT ![h] = "settings"]
              /\ UNCHANGED <<response, sent, fault>>
           \/ /\ Catch(h, "emit")
              /\ UNCHANGED <<channel, pushes, delivered>>
    /\ UNCHANGED <<now, events, settings, local, del, ops, start, seen,
                   appended, overlapped, untrimmed, erased, saved, watch,
                   sessionVars, vdel, auxVars>>

\* Respond writing a default Settings record when the endpoint has none
RespondCreatingSettings(h) ==
    /\ pc[h] = "settings"
    /\ \E readOk \in BOOLEAN :
          LET result == getWebhookSettings(settings[local[h].uuid], readOk)
              built == BuildResponse(result)
          IN  /\ seen' = [seen EXCEPT ![h] = result]
              /\ settings' = IF readOk /\ result.state = "absent"
                             THEN [settings EXCEPT ![local[h].uuid] =
                                      StringifySettings(Settings(201, "pong", {}))]
                             ELSE settings
              /\ IF built.threw
                 THEN Catch(h, "respond")
                 ELSE Return(h, built.response)
    /\ UNCHANGED <<now, events, channel, local, del, ops, start, appended,
                   overlapped, untrimmed, erased, restVars>>

\* route.ts 84-110: await getWebhookSettings(uuid), then the response
Respond(h) ==
    /\ pc[h] = "settings"
    /\ \E readOk \in BOOLEAN :
          LET result == getWebhookSettings(settings[local[h].uuid], readOk)
              built == BuildResponse(result)
          IN  /\ seen' = [seen EXCEPT ![h] = result]
              /\ IF built.threw
                 THEN Catch(h, "respond")
                 ELSE Return(h, built.response)
    /\ UNCHANGED <<now, storeVars, local, del, ops, start, appended, overlapped,
                   untrimmed, erased, restVars>>

(***************************************************************************)
(* Server actions of app/actions/webhook.ts and app/actions/settings.ts.   *)
(***************************************************************************)
\* the return of a server action called for endpoint u; failed: an operation
\* on the Store threw inside it
ReturnOf(action, u, failed) ==
    [NoReturn EXCEPT !.n = ret.n + 1, !.action = action, !.uuid = u,
                     !.failed = failed]

\* getWebhookEvents without its catch block returning []: the log is read
\* whether or not the Store read throws
getWebhookEventsReadingAnyway(u, readOk) ==
    [i \in 1..Len(events[u]) |-> ParseEvent(ZRangeRev(events[u])[i])]

\* webhook.ts getWebhookEvents: the parsed events, most recent first; the
\* empty list when the Store read throws
getWebhookEvents(u, readOk) ==
    IF readOk
    THEN [i \in 1..Len(events[u]) |-> ParseEvent(ZRangeRev(events[u])[i])]
    ELSE <<>>

\* webhook.ts deleteWebhookEvent: parsedEvent.id === eventId
DeleteMatches(parsedEvent, eventId) == parsedEvent.id = eventId

\* DeleteMember with the keys serialized in another order than at capture
\* (query before headers)
DeleteMemberReordered(m) ==
    <<m[1], m[2], m[3], m[4], m[7], m[6], m[5], m[8]>>

\* webhook.ts deleteWebhookEvent: the member handed to ZREM is the event as
\* the Store client returned it (parsed), serialized again
DeleteMember(m) == StringifyEvent(ParseEvent(m))

DeleteIds == {1, 101, 999}

\* deleteWebhookEvent up to its ZRANGE and the search for the id
DeleteStart(u, eventId) ==
    /\ del.pc \in {"idle", "done"}
    /\ ops < MaxOps
    /\ ops' = ops + 1
    /\ LET members == ZRange(events[u])
           hits == {i \in 1..Len(members) :
                       DeleteMatches(ParseEvent(members[i]), eventId)}
           first == CHOOSE i \in hits : \A j \in hits : i <= j
           isIn == \E i \in 1..Len(members) : ParseEvent(members[i]).id = eventId
           call == [NoDelete EXCEPT !.uuid = u, !.eventId = eventId, !.present = isIn]
       IN  \/ /\ hits # {}
              /\ del' = [call EXCEPT !.pc = "zrem", !.member = DeleteMember(members[first])]
              /\ UNCHANGED ret
           \/ /\ hits = {}
              /\ del' = [call EXCEPT !.pc = "done", !.result = FALSE]
              /\ ret' = [ReturnOf("deleteWebhookEvent", u, FALSE) EXCEPT !.bool = FALSE]
           \/ \* the ZRANGE throws: caught, false
              /\ del' = [call EXCEPT !.pc = "done", !.result = FALSE]
              /\ ret' = [ReturnOf("deleteWebhookEvent", u, TRUE) EXCEPT !.bool = FALSE]
    /\ UNCHANGED <<now, storeVars, handlerVars, appended, overlapped, untrimmed,
                   erased, saved, watch, probe, status, link>>

\* deleteWebhookEvent called by a client other than a viewer session
DeleteCall(u, eventId) ==
    /\ DeleteStart(u, eventId)
    /\ UNCHANGED clientVars

\* deleteWebhookEvent: await redis.zrem(redisKey, member); return true
DeleteZrem ==
    /\ del.pc = "zrem"
    /\ \/ /\ events' = [events EXCEPT ![del.uuid] = ZRem(@, del.member)]
          /\ erased' = [erased EXCEPT ![del.uuid] =
                            @ \cup {ParseEvent(events[del.uuid][i].member).id :
                                      i \in {j \in 1..Len(events[del.uuid]) :
                                                 events[del.uuid][j].member = del.member}}]
          /\ del' = [del EXCEPT !.pc = "done", !.result = TRUE]
          /\ ret' = [ReturnOf("deleteWebhookEvent", del.uuid, FALSE) EXCEPT !.bool = TRUE]
       \/ \* the ZREM throws: caught, false
          /\ del' = [del EXCEPT !.pc = "done", !.result = FALSE]
          /\ ret' = [ReturnOf("deleteWebhookEvent", del.uuid, TRUE) EXCEPT !.bool = FALSE]
          /\ UNCHANGED <<events, erased>>
    /\ UNCHANGED <<now, settings, channel, handlerVars, ops, appended, overlapped,
                   untrimmed, saved, watch, clientVars, probe, status, link>>

\* DelKey removing every key of the Store's logs
DelEveryKey(store, key) == [k \in DOMAIN store |-> <<>>]

\* redis.del(key) on the logs
DelKey(store, key) == [store EXCEPT ![key] = <<>>]

\* webhook.ts deleteAllWebhookEvents: await redis.del(redisKey); return true
DeleteAllCall(u) ==
    /\ ops < MaxOps
    /\ ops' = ops + 1
    /\ \/ /\ events' = DelKey(events, u)
          /\ erased' = [k \in UUIDS |->
                           IF events'[k] = events[k] THEN erased[k]
                           ELSE erased[k] \cup
                                {ParseEvent(events[k][i].member).id :
                                    i \in 1..Len(events[k])}]
          /\ ret' = [ReturnOf("deleteAllWebhookEvents", u, FALSE) EXCEPT !.bool = TRUE]
       \/ \* the DEL throws: caught, false
          /\ ret' = [ReturnOf("deleteAllWebhookEvents", u, TRUE) EXCEPT !.bool = FALSE]
          /\ UNCHANGED <<events, erased>>
    /\ UNCHANGED <<now, settings, channel, handlerVars, del, appended, overlapped,
                   untrimmed, saved, watch, clientVars, probe, status, link>>

\* getWebhookEvents called by a client other than a viewer session
GetEventsCall(u) ==
    /\ ops < MaxOps
    /\ ops' = ops + 1
    /\ \E readOk \in BOOLEAN :
          ret' = [ReturnOf("getWebhookEvents", u, ~readOk)
                     EXCEPT !.events = getWebhookEvents(u, readOk)]
    /\ UNCHANGED <<now, storeVars, handlerVars, del, appended, overlapped,
                   untrimmed, erased, saved, watch, clientVars, probe, status,
                   link>>

\* getWebhookSettings called by a client (the settings page)
GetSettingsCall(u) ==
    /\ ops < MaxOps
    /\ ops' = ops + 1
    /\ \E readOk \in BOOLEAN :
          LET result == getWebhookSettings(settings[u], readOk)
          IN  ret' = [ReturnOf("getWebhookSettings", u, ~readOk)
                         EXCEPT !.settings = result, !.threw = result.threw]
    /\ UNCHANGED <<now, storeVars, handlerVars, del, appended, overlapped,
                   untrimmed, erased, saved, watch, clientVars, probe, status,
                   link>>

\* settings.ts saveWebhookSettings: redis.set(redisKey, JSON.stringify(settings))
SaveSettings(u, s) ==
    /\ ops < MaxOps
    /\ ops' = ops + 1
    /\ \/ /\ settings' = [settings EXCEPT ![u] = StringifySettings(s)]
          /\ saved' = [saved EXCEPT ![u] = Append(@, s)]
          /\ ret' = [ReturnOf("saveWebhookSettings", u, FALSE) EXCEPT !.bool = TRUE]
       \/ \* the SET throws: caught, false
          /\ ret' = [ReturnOf("saveWebhookSettings", u, TRUE) EXCEPT !.bool = FALSE]
          /\ UNCHANGED <<settings, saved>>
    /\ UNCHANGED <<now, events, channel, handlerVars, del, appended, overlapped,
                   untrimmed, erased, watch, clientVars, probe, status, link>>

(***************************************************************************)
(* The viewer session: Home (app/page.tsx) with its Inbox                  *)
(* (app/components/inbox.tsx) and MessageViewer                            *)
(* (app/components/message-viewer.tsx).  Every callback runs to its first  *)
(* await in one step; what follows the await is another step.              *)
(***************************************************************************)
\* inbox.tsx 59-60: loadEvents calls getWebhookEvents(uuid) with the uuid of
\* the render it was created in
LoadEvents(u) == [uuid |-> u, state |-> "called", result |-> <<>>, readOk |-> FALSE]

\* page.tsx 26-34, 79-96: Home gets its uuid and renders the Inbox, which
\* subscribes (inbox.tsx 33-51; the subscription is taken as established at
\* once), calls onStatusChange("connected") (53-56; page.tsx 86: setStatus)
\* and loads the initial events (64-66)
Mount(v, u) ==
    /\ vuuid[v] = ""
    /\ vuuid' = [vuuid EXCEPT ![v] = u]
    /\ subs' = [subs EXCEPT ![v] = @ \cup {u}]
    /\ link' = [link EXCEPT ![v] = "connected"]
    /\ status' = [status EXCEPT ![v] = "connected"]
    /\ fetches' = [fetches EXCEPT ![v] = Append(@, LoadEvents(u))]
    /\ UNCHANGED <<now, storeVars, handlerVars, del, ops, appended, overlapped,
                   untrimmed, erased, saved, watch, shown, pushes, selected,
                   vdel, searchQuery, handled, delivered, applied, switched,
                   probe, ret>>

\* the Inbox is rendered with another uuid prop: useRealtime subscribes to
\* the new channel instead of the old one and the effect of inbox.tsx 64-66
\* runs again; the events state is kept
Switch(v, u) ==
    /\ vuuid[v] \notin {"", u}
    /\ switched[v] < MaxSwitches
    /\ switched' = [switched EXCEPT ![v] = @ + 1]
    /\ vuuid' = [vuuid EXCEPT ![v] = u]
    /\ subs' = [subs EXCEPT ![v] = @ \cup {u}]
    /\ applied' = [applied EXCEPT ![v] = "no"]
    /\ watch' = [h \in Handlers |-> watch[h] \ {v}]
    /\ fetches' = [fetches EXCEPT ![v] = Append(@, LoadEvents(u))]
    /\ UNCHANGED <<now, storeVars, handlerVars, del, ops, appended, overlapped,
                   untrimmed, erased, saved, shown, pushes, selected, vdel,
                   searchQuery, handled, delivered, auxVars>>

\* the server action getWebhookEvents of the i-th pending call runs
FetchRead(v, i) ==
    /\ i \in 1..Len(fetches[v])
    /\ fetches[v][i].state = "called"
    /\ \E readOk \in BOOLEAN :
          fetches' = [fetches EXCEPT
                         ![v][i].state = "read",
                         ![v][i].readOk = readOk,
                         ![v][i].result = getWebhookEvents(fetches[v][i].uuid, readOk)]
    /\ UNCHANGED <<now, storeVars, handlerVars, del, ops, appended, overlapped,
                   untrimmed, erased, saved, watch, vuuid, shown, pushes,
                   selected, vdel, searchQuery, handled, delivered, subs,
                   applied, switched, auxVars>>

\* the sequence without its i-th element
RemoveAt(seq, i) == SubSeq(seq, 1, i - 1) \o SubSeq(seq, i + 1, Len(seq))

\* inbox.tsx 60-61: the call resolves; setEvents(initialEvents)
FetchApply(v, i) ==
    /\ i \in 1..Len(fetches[v])
    /\ fetches[v][i].state = "read"
    /\ shown' = [shown EXCEPT ![v] = fetches[v][i].result]
    /\ applied' = [applied EXCEPT ![v] =
                      IF fetches[v][i].uuid # vuuid[v] THEN @
                      ELSE IF fetches[v][i].readOk THEN "ok" ELSE "failed"]
    /\ fetches' = [fetches EXCEPT ![v] = RemoveAt(@, i)]
    /\ UNCHANGED <<now, storeVars, handlerVars, del, ops, appended, overlapped,
                   untrimmed, erased, saved, watch, vuuid, pushes, selected,
                   vdel, searchQuery, handled, delivered, subs, switched, auxVars>>

\* onData without the check of the uuid
onDataUnguarded(uuid, prev, data) == <<data>> \o prev

\* inbox.tsx 36-39: if (data.uuid === uuid) setEvents((prev) => [data, ...prev])
onData(uuid, prev, data) ==
    IF data.uuid = uuid THEN <<data>> \o prev ELSE prev

\* a delivered push reaches the Inbox's onData callback
OnData(v) ==
    /\ pushes[v] # <<>>
    /\ pushes' = [pushes EXCEPT ![v] = Tail(@)]
    /\ handled' = [handled EXCEPT ![v] =
                      Append(@, [data |-> Head(pushes[v]), uuid |-> vuuid[v]])]
    /\ shown' = [shown EXCEPT ![v] = onData(vuuid[v], @, Head(pushes[v]))]
    /\ UNCHANGED <<now, storeVars, handlerVars, del, ops, appended, overlapped,
                   untrimmed, erased, saved, watch, vuuid, fetches, selected,
                   vdel, searchQuery, delivered, subs, applied, switched, auxVars>>

\* page.tsx 81-84: the i-th event of the list is clicked
SelectEvent(v, i) ==
    /\ i \in 1..Len(shown[v])
    /\ selected[v] # shown[v][i]
    /\ selected' = [selected EXCEPT ![v] = shown[v][i]]
    /\ UNCHANGED <<now, storeVars, handlerVars, del, ops, appended, overlapped,
                   untrimmed, erased, saved, watch, vuuid, shown, pushes,
                   fetches, vdel, searchQuery, handled, delivered, subs,
                   applied, switched, auxVars>>

\* no viewer session is waiting for a deleteWebhookEvent call to return
NoDeletePending == \A w \in Viewers : vdel[w].state # "awaiting"

\* inbox.tsx 78-80: the delete button of the i-th event of the list;
\* await deleteWebhookEvent(uuid, eventId)
HandleDeleteOne(v, i) ==
    /\ i \in 1..Len(shown[v])
    /\ NoDeletePending
    /\ DeleteStart(vuuid[v], shown[v][i].id)
    /\ vdel' = [vdel EXCEPT ![v] =
                   [state |-> "awaiting", from |-> "inbox", uuid |-> vuuid[v],
                    eventId |-> shown[v][i].id,
                    selectedEventId |-> selected[v].id]]
    /\ UNCHANGED <<sessionVars, pushes, delivered>>

\* message-viewer.tsx 50-51: the delete button of the selected event;
\* await deleteWebhookEvent(event.uuid, event.id)
HandleDelete(v) ==
    /\ selected[v] # NoEvent
    /\ NoDeletePending
    /\ DeleteStart(selected[v].uuid, selected[v].id)
    /\ vdel' = [vdel EXCEPT ![v] =
                   [state |-> "awaiting", from |-> "viewer",
                    uuid |-> selected[v].uuid, eventId |-> selected[v].id,
                    selectedEventId |-> selected[v].id]]
    /\ UNCHANGED <<sessionVars, pushes, delivered>>

\* inbox.tsx 81: setEvents((prev) => prev.filter((event) => event.id !== eventId))
FilterOut(prev, eventId) ==
    LET Keep(event) == event.id # eventId
    IN  SelectSeq(prev, Keep)

\* the deleteWebhookEvent call has returned (its result is not looked at):
\*   inbox.tsx 81-87: the event leaves the list and, if it was the selected
\*                    one, onEventsChange clears the selection (page.tsx 93-95)
\*   message-viewer.tsx 52: onDelete() clears the selection (page.tsx 114)
DeleteDone(v) ==
    /\ vdel[v].state = "awaiting"
    /\ del.pc = "done"
    /\ vdel' = [vdel EXCEPT ![v].state = "done"]
    /\ IF vdel[v].from = "inbox"
       THEN /\ shown' = [shown EXCEPT ![v] = FilterOut(@, vdel[v].eventId)]
            /\ selected' = [selected EXCEPT ![v] =
                               IF vdel[v].selectedEventId = vdel[v].eventId
                               THEN NoEvent ELSE @]
       ELSE /\ selected' = [selected EXCEPT ![v] = NoEvent]
            /\ UNCHANGED shown
    /\ UNCHANGED <<now, storeVars, handlerVars, del, ops, appended, overlapped,
                   untrimmed, erased, saved, watch, vuuid, pushes, fetches,
                   searchQuery, handled, delivered, subs, applied, switched,
                   auxVars>>

Next ==
    \/ \E h \in Handlers :
          Receive(h) \/ Zadd(h) \/ Zcard(h) \/ Trim(h) \/ Emit(h) \/ Respond(h)
    \/ \E u \in UUIDS, eventId \in DeleteIds : DeleteCall(u, eventId)
    \/ DeleteZrem
    \/ \E u \in UUIDS, s \in SettingsInputs : SaveSettings(u, s)

Spec == Init /\ [][Next]_vars

\* every request is served: a handler that can take a step eventually does
\* (the event loop runs every continuation whose await has settled)
FairSpec == Spec /\ \A h \in Handlers :
    WF_vars(Zadd(h) \/ Zcard(h) \/ Trim(h) \/ Emit(h) \/ Respond(h))

(***************************************************************************)
(* The capture route and one viewer session side by side.  The log of      *)
(* endpoint "a" holds one earlier event; the log never reaches 51 entries, *)
(* so no handler comes to its removal step.                                *)
(***************************************************************************)
(***************************************************************************)
(* The search box of the Inbox (inbox.tsx 111-147).  A text is a sequence  *)
(* of words; includes() is the test for a run of consecutive words, and    *)
(* toLowerCase() works word by word.                                       *)
(***************************************************************************)
\* String.prototype.toLowerCase on one word
Lower(w) ==
    CASE w = "GET" -> "get"
      [] w = "POST" -> "post"
      [] w = "PATCH" -> "patch"
      [] w = "OPTIONS" -> "options"
      [] w = "Hello" -> "hello"
      [] w = "HELLO" -> "hello"
      [] OTHER -> w

ToLowerCase(text) == [i \in 1..Len(text) |-> Lower(text[i])]

\* String.prototype.includes
TextIncludes(text, part) ==
    \E k \in 0..(Len(text) - Len(part)) : SubSeq(text, k + 1, k + Len(part)) = part

\* String.prototype.trim on the search texts the model uses
TrimText(q) == IF q = " " THEN "" ELSE q

\* JSON.stringify of a string map (the maps of the model have at most one key)
StringifyMap(m) ==
    IF m = {} THEN <<"{}">>
    ELSE LET p == CHOOSE p \in m : TRUE IN <<"{", p[1], ":", p[2], "}">>

\* JSON.stringify(event.body) for a body that is not a string
StringifyBody(body) ==
    IF body.kind = "form" THEN <<"{", body.val, "}">>
    ELSE IF body.kind = "null" THEN <<"null">>
    ELSE <<body.val>>

\* the values for which if (event.body) takes the else side: null, "", false
Falsy(body) == body \in {Null, Text(""), Json("false")}

\* inbox.tsx 112-147
filteredEvents(evs, q) ==
    IF TrimText(q) = "" THEN evs
    ELSE LET query == <<Lower(q)>>
             Match(event) ==
                \/ TextIncludes(ToLowerCase(<<event.method>>), query)
                \/ TextIncludes(ToLowerCase(event.url), query)
                \/ TextIncludes(ToLowerCase(StringifyMap(event.headers)), query)
                \/ TextIncludes(ToLowerCase(StringifyMap(event.query)), query)
                \/ /\ ~Falsy(event.body)
                   /\ TextIncludes(ToLowerCase(IF event.body.kind = "text"
                                               THEN <<event.body.val>>
                                               ELSE StringifyBody(event.body)), query)
                \/ TextIncludes(ToLowerCase(<<ToString(event.id)>>), query)
         IN  SelectSeq(evs, Match)

\* the events an Inbox searches in: earlier captures to endpoint "a", a
\* millisecond apart
SampleRequests ==
    << Req("POST", "application/json", "{\"x\":1}", ""),
       Req("GET", "", "", "?x=1"),
       Req("POST", "application/json", "false", ""),
       Req("PATCH", "text/plain", "Hello", ""),
       Req("OPTIONS", "", "", "") >>

SampleEvent(i) ==
    WebhookEvent(100 + i, "a", SampleRequests[i], ParseBody(SampleRequests[i]), i)

\* the sorted set after ZADD of the sample events numbered in S
SampleLog(S) ==
    LET Rank(i) == Cardinality({j \in S : j < i})
    IN  [k \in 1..Cardinality(S) |->
            LET i == CHOOSE i \in S : Rank(i) = k - 1
            IN  [score |-> SampleEvent(i).timestamp,
                 member |-> StringifyEvent(SampleEvent(i))]]

\* what the search box is given
SearchTexts == {"", " ", "POST", "get", "?x=1", "x", "HELLO", "false", "103", "zzz"}

\* the log of "a" holds some of the sample events; every Inbox has uuid "a"
\* and shows what its fetch returned
SearchInit ==
    \E S \in SUBSET (1..Len(SampleRequests)) :
        /\ events = [u \in UUIDS |-> IF u = "a" THEN SampleLog(S) ELSE <<>>]
        /\ appended = [u \in UUIDS |->
                          IF u = "a"
                          THEN [k \in 1..Cardinality(S) |->
                                   ParseEvent(SampleLog(S)[k].member).id]
                          ELSE <<>>]
        /\ now = Len(SampleRequests)
        /\ overlapped = FALSE
        /\ IdleInit
        /\ vuuid = [v \in Viewers |-> "a"]
        /\ subs = [v \in Viewers |-> {"a"}]
        /\ applied = [v \in Viewers |-> "ok"]
        /\ shown = [v \in Viewers |->
                       [k \in 1..Cardinality(S) |->
                           ParseEvent(ZRangeRev(SampleLog(S))[k])]]
        /\ pushes = [v \in Viewers |-> <<>>]
        /\ fetches = [v \in Viewers |-> <<>>]
        /\ selected = [v \in Viewers |-> NoEvent]
        /\ vdel = [v \in Viewers |-> NoViewerDelete]
        /\ searchQuery = [v \in Viewers |-> ""]
        /\ handled = [v \in Viewers |-> <<>>]
        /\ delivered = [v \in Viewers |-> <<>>]
        /\ switched = [v \in Viewers |-> 0]
        /\ status = [v \in Viewers |-> "connected"]
        /\ link = [v \in Viewers |-> "connected"]
        /\ probe = NoProbe

\* inbox.tsx 270: onChange={(e) => setSearchQuery(e.target.value)}
SetSearchQuery(v, q) ==
    /\ searchQuery[v] # q
    /\ searchQuery' = [searchQuery EXCEPT ![v] = q]
    /\ UNCHANGED <<now, storeVars, handlerVars, del, ops, appended, overlapped,
                   untrimmed, erased, saved, watch, vuuid, shown, pushes,
                   fetches, selected, vdel, handled, delivered, subs, applied,
                   switched, auxVars>>

SearchNext == \E v \in Viewers, q \in SearchTexts : SetSearchQuery(v, q)

SearchSpec == SearchInit /\ [][SearchNext]_vars

\* number of earlier events in the log a viewer session deletes from
MaxListed == 3

DeleteInit ==
    /\ ServerInit(<<"spread", MaxListed>>)
    /\ ClientInit
    /\ probe = NoProbe

(***************************************************************************)
(* The body parser alone, on every combination of method, content type and *)
(* payload.                                                                *)
(***************************************************************************)
Payloads == {"", "{\"x\":1}", "{bad", "key1=value1", "hello"}
ProbeMethods == {"GET", "POST", "PUT", "DELETE", "PATCH", "OPTIONS", "HEAD"}
ProbeRequests ==
    {Req(m, ct, payload, "") : m \in ProbeMethods, ct \in ContentTypes,
                               payload \in Payloads}

ParseInit ==
    /\ ServerInit(<<"spread", 0>>)
    /\ ClientInit
    /\ probe \in {[request |-> r, state |-> "received", body |-> Null] :
                     r \in ProbeRequests}

\* route.ts 29-49 applied to the request
Parse ==
    /\ probe.state = "received"
    /\ probe' = [probe EXCEPT !.state = "parsed", !.body = ParseBody(probe.request)]
    /\ UNCHANGED <<now, storeVars, handlerVars, del, ops, appended, overlapped,
                   untrimmed, erased, saved, watch, clientVars,
                   ret, status, link>>

ParseNext == Parse

ParseSpec == ParseInit /\ [][ParseNext]_vars

ViewerInit ==
    /\ ServerInit(<<"spread", 1>>)
    /\ ClientInit
    /\ probe = NoProbe

\* a capture of the request that the viewer's endpoint is sent, a
\* millisecond or more after the capture before it
Capture(h) ==
    /\ Receive(h)
    /\ local'[h].request = EarlierRequest
    /\ now' = now + 1

ViewerNext ==
    \/ \E h \in Handlers :
          Capture(h) \/ Zadd(h) \/ Zcard(h) \/ Emit(h) \/ Respond(h)
    \/ \E v \in Viewers, u \in UUIDS : Mount(v, u) \/ Switch(v, u)
    \/ \E v \in Viewers, i \in 1..(MaxSwitches + 1) :
          FetchRead(v, i) \/ FetchApply(v, i)
    \/ \E v \in Viewers : OnData(v)

ViewerSpec == ViewerInit /\ [][ViewerNext]_vars

(***************************************************************************)
(* One viewer session deleting events, with no capture under way.          *)
(***************************************************************************)
DeleteNext ==
    \/ \E v \in Viewers, u \in UUIDS : Mount(v, u)
    \/ \E v \in Viewers, i \in 1..MaxListed :
          \/ FetchRead(v, i) \/ FetchApply(v, i)
          \/ SelectEvent(v, i) \/ HandleDeleteOne(v, i)
    \/ \E v \in Viewers : HandleDelete(v) \/ DeleteDone(v)
    \/ DeleteZrem

DeleteSpec == DeleteInit /\ [][DeleteNext]_vars

(***************************************************************************)
(* The connection of a viewer session's subscription.  useRealtime         *)
(* (inbox.tsx 33-51) is called for its onData callback only: nothing the   *)
(* hook returns is read, and onStatusChange is called in one place, the    *)
(* mount effect (inbox.tsx 53-56).  So no step of the connection changes   *)
(* the status state of Home.                                               *)
(***************************************************************************)
\* the network is interrupted: the subscription starts to reconnect
Interrupt(v) ==
    /\ link[v] = "connected"
    /\ link' = [link EXCEPT ![v] = "reconnecting"]
    /\ UNCHANGED <<now, storeVars, handlerVars, del, ops, appended, overlapped,
                   untrimmed, erased, saved, watch, clientVars, probe, ret,
                   status>>

\* the subscription stops trying to reconnect
GiveUp(v) ==
    /\ link[v] = "reconnecting"
    /\ link' = [link EXCEPT ![v] = "disconnected"]
    /\ UNCHANGED <<now, storeVars, handlerVars, del, ops, appended, overlapped,
                   untrimmed, erased, saved, watch, clientVars, probe, ret,
                   status>>

\* the subscription is opened again
Retry(v) ==
    /\ link[v] = "disconnected"
    /\ link' = [link EXCEPT ![v] = "connecting"]
    /\ UNCHANGED <<now, storeVars, handlerVars, del, ops, appended, overlapped,
                   untrimmed, erased, saved, watch, clientVars, probe, ret,
                   status>>

\* the connection is established again
Connect(v) ==
    /\ link[v] \in {"connecting", "reconnecting"}
    /\ link' = [link EXCEPT ![v] = "connected"]
    /\ UNCHANGED <<now, storeVars, handlerVars, del, ops, appended, overlapped,
                   untrimmed, erased, saved, watch, clientVars, probe, ret,
                   status>>

StatusNext ==
    \/ \E v \in Viewers, u \in UUIDS : Mount(v, u) \/ Switch(v, u)
    \/ \E v \in Viewers, i \in 1..(MaxSwitches + 1) :
          FetchRead(v, i) \/ FetchApply(v, i)
    \/ \E v \in Viewers : Interrupt(v) \/ GiveUp(v) \/ Retry(v) \/ Connect(v)

StatusSpec == ViewerInit /\ [][StatusNext]_vars

(***************************************************************************)
(* The capture route, with its trim, and viewer sessions that subscribe.   *)
(***************************************************************************)
\* a capture of one request; what is published does not depend on what
\* the request holds
Arrive(h) ==
    /\ Receive(h)
    /\ local'[h].request = EarlierRequest

PublishNext ==
    \/ \E h \in Handlers :
          Arrive(h) \/ Zadd(h) \/ Zcard(h) \/ Trim(h) \/ Emit(h) \/ Respond(h)
    \/ \E v \in Viewers, u \in UUIDS : Mount(v, u)

PublishSpec == Init /\ [][PublishNext]_vars

(***************************************************************************)
(* The capture route and every server action, each called for any          *)
(* endpoint and each with its Store operation succeeding or throwing.      *)
(***************************************************************************)
ActionNext ==
    \/ Next
    \/ \E u \in UUIDS :
          DeleteAllCall(u) \/ GetEventsCall(u) \/ GetSettingsCall(u)

ActionSpec == Init /\ [][ActionNext]_vars

TypeOK ==
    /\ \A u \in UUIDS : IsSorted(events[u])
    /\ \A h \in Handlers : pc[h] \in {"idle", "zadd", "zcard", "trim", "emit",
                                       "settings", "done"}
    /\ \A h \in Handlers : sent[h] \in {0, 1}

(***************************************************************************)
(* Properties.                                                             *)
(***************************************************************************)
\* a historical fetch that succeeds
Fetch(u) == getWebhookEvents(u, TRUE)
FetchIds(u) == {Fetch(u)[i].id : i \in 1..Len(Fetch(u))}

Quiescent == \A h \in Handlers : ~InFlight(h)
NoFault == \A h \in Handlers : fault[h] = "none"

\* the last n elements of a sequence, as a set
LastOf(seq, n) == {seq[i] : i \in {j \in 1..Len(seq) : j > Len(seq) - n}}

DefaultBody == Json("{success:true,message:Webhook received}")

\* C1: after 51 or more captures to one endpoint, one after another, with no
\* delete and no failure, the log holds exactly 50 entries, the 50 captured
\* last (insertion order deciding between equal timestamps).
C1_Last50InCaptureOrder ==
    \A u \in UUIDS :
        (/\ Quiescent /\ NoFault /\ ~overlapped
         /\ erased[u] = {} /\ del.pc # "zrem"
         /\ Len(appended[u]) >= MaxEvents + 1)
        => /\ Len(events[u]) = MaxEvents
           /\ FetchIds(u) = LastOf(appended[u], MaxEvents)

\* C2: whatever the interleaving of concurrent captures, once every handler
\* has finished, 50 or more events were appended and nothing was deleted,
\* the log holds exactly 50 entries.
C2_Exactly50AfterConcurrentCaptures ==
    \A u \in UUIDS :
        (/\ Quiescent /\ NoFault
         /\ erased[u] = {} /\ del.pc # "zrem"
         /\ Len(appended[u]) >= MaxEvents)
        => Len(events[u]) = MaxEvents

\* the statuses a capture may answer with
AllowedStatuses(h) ==
    {200, 500} \cup (IF seen[h].state = "present"
                     THEN {ParseSettings(seen[h].value).responseStatus}
                     ELSE {})

\* C3: every capture request, whatever its method and whichever step fails,
\* eventually completes, with exactly one response whose status is 200, the
\* configured status or 500.
C3_AlwaysOneResponse ==
    /\ \A h \in Handlers : [](InFlight(h) => <>(pc[h] = "done"))
    /\ [](\A h \in Handlers :
            /\ sent[h] <= 1
            /\ fault[h] # "none" => pc[h] = "done"
            /\ pc[h] = "done" => /\ sent[h] = 1
                                 /\ response[h].status \in AllowedStatuses(h))

\* a capture whose trim threw is done and has answered once
C3_Witness ==
    \E h \in Handlers :
        pc[h] = "done" /\ fault[h] = "trim" /\ sent[h] = 1
        /\ response[h].status = 500

\* C4: a capture whose publish failed after its event was appended does not
\* answer 500.
C4_PublishFailureNotFatal ==
    \A h \in Handlers :
        (pc[h] = "done" /\ fault[h] = "emit") => response[h].status # 500

\* C5: a capture that read a Settings record answers with the configured
\* status, the default Content-Type overridden/extended by the configured
\* headers, and the configured body (parsed when it is JSON text).
C5_ConfiguredResponse ==
    \A h \in Handlers :
        (pc[h] = "done" /\ seen[h].state = "present")
        => LET s == ParseSettings(seen[h].value)
           IN  /\ response[h].status = s.responseStatus
               /\ response[h].headers =
                     ObjSpread({<<"Content-Type", "application/json">>},
                               s.responseHeaders)
               /\ response[h].body =
                     IF JSONparse(s.responseBody).ok
                     THEN JSONparse(s.responseBody).value
                     ELSE Text(s.responseBody)

\* C6: after a capture answered with a status other than 500, and nothing
\* else happened, a historical fetch holds its event, field by field, with a
\* timestamp not before the request's arrival.
C6_CapturedEventIsFetched ==
    \A h \in Handlers :
        (pc[h] = "done" /\ response[h].status # 500 /\ ops = 1)
        => /\ \E i \in 1..Len(Fetch(local[h].uuid)) :
                 Fetch(local[h].uuid)[i] = local[h].webhookEvent
           /\ local[h].webhookEvent.timestamp >= start[h]

\* no event of the sequence is followed by a more recent one
DescendingByTimestamp(seq) ==
    \A i \in 1..(Len(seq) - 1) : seq[i].timestamp >= seq[i + 1].timestamp

\* C7 as stated: in every state a historical fetch returns at most 50
\* events, most recent first.
C7_FetchAtMost50 ==
    \A u \in UUIDS :
        LET fetched == Fetch(u)
        IN  Len(fetched) <= MaxEvents /\ DescendingByTimestamp(fetched)

\* C7 amended: in every state a historical fetch returns the events most
\* recent first, and at most 50 plus one for each capture that has appended
\* its event and has not completed its trim step.
C7_FetchAtMost50PlusUntrimmed ==
    \A u \in UUIDS :
        LET fetched == Fetch(u)
        IN  /\ Len(fetched) <= MaxEvents + untrimmed[u]
            /\ DescendingByTimestamp(fetched)

\* a fetch between a capture's append and its trim returns 51 events
C7_Witness ==
    \E h \in Handlers :
        pc[h] = "trim" /\ Len(Fetch(local[h].uuid)) = MaxEvents + 1

\* a deleteWebhookEvent call that finds no event with the id returns false
\* and changes nothing in the Store
C8_NotFoundStep ==
    (del' # del /\ del'.pc = "done" /\ ~del'.present)
    => (~del'.result /\ ~del'.threw /\ events' = events)

\* C8: once deleteWebhookEvent returned true for an id that was in the log,
\* no historical fetch holds an event with that id; for an id that is not in
\* the log it returns false, raises nothing and leaves the log as it was.
C8_DeleteOne ==
    /\ []((del.pc = "done" /\ del.present /\ del.result)
            => del.eventId \notin FetchIds(del.uuid))
    /\ [][C8_NotFoundStep]_vars

\* the event captured by the first request was deleted by its id
C8_Witness ==
    /\ del.pc = "done" /\ del.present /\ del.result
    /\ pc[1] = "done" /\ del.eventId = local[1].webhookEvent.id
    /\ del.uuid = local[1].uuid

\* C9: a capture that finds no Settings record and meets no failure answers
\* 200 with {success: true, message: "Webhook received"}.
C9_DefaultResponse ==
    \A h \in Handlers :
        (/\ pc[h] = "done" /\ fault[h] = "none"
         /\ seen[h].state = "absent" /\ ~seen[h].readFailed)
        => response[h].status = 200 /\ response[h].body = DefaultBody

\* a DELETE whose JSON body did not parse got the default response
C9_Witness ==
    \E h \in Handlers :
        /\ pc[h] = "done" /\ fault[h] = "none"
        /\ seen[h].state = "absent" /\ ~seen[h].readFailed
        /\ local[h].request.method = "DELETE"
        /\ local[h].webhookEvent.body = Null
        /\ response[h].status = 200

\* C10: a capture whose settings read failed, after its append, trim and
\* publish succeeded, answers with the default 200 response.
C10_SettingsReadFailureGivesDefault ==
    \A h \in Handlers :
        (pc[h] = "done" /\ seen[h].readFailed)
        => response[h].status = 200 /\ response[h].body = DefaultBody

\* the settings read of a capture failed while a Settings record was stored
C10_Witness ==
    \E h \in Handlers :
        /\ pc[h] = "done" /\ seen[h].readFailed
        /\ settings[local[h].uuid] # NoValue
        /\ response[h].status = 200

\* C11: a capture whose Store append or trim (the count or the removal)
\* threw answers 500 with exactly the body {success: false, error: "Internal
\* server error"}.
C11_StoreFailureGivesGeneric500 ==
    \A h \in Handlers :
        fault[h] \in {"zadd", "zcard", "trim"}
        => /\ pc[h] = "done" /\ sent[h] = 1
           /\ response[h].status = 500
           /\ response[h].body = Json("{success:false,error:Internal server error}")

\* one capture's append threw and another capture's removal threw
C11_Witness ==
    \E h, g \in Handlers :
        /\ fault[h] = "zadd" /\ response[h].status = 500
        /\ fault[g] = "trim" /\ response[g].status = 500

\* what getWebhookSettings(u) returns to its caller when the Store read
\* succeeds: the settings object, or NoValue for null
GetSettings(u) ==
    LET result == getWebhookSettings(settings[u], TRUE)
    IN  IF result.state = "present" THEN <<ParseSettings(result.value)>> ELSE <<>>

\* C12: in every state, a get whose Store read succeeds returns the settings
\* of the last save that succeeded for that uuid, whatever was saved before,
\* and null for a uuid that was never saved.
C12_SaveThenGet ==
    \A u \in UUIDS :
        IF saved[u] = <<>>
        THEN GetSettings(u) = <<>>
        ELSE GetSettings(u) = <<saved[u][Len(saved[u])]>>

\* two saves for one uuid succeeded, the second with other settings, and
\* nothing was ever saved for the other uuid
C12_Witness ==
    /\ Len(saved["a"]) = 2 /\ saved["a"][1] # saved["a"][2]
    /\ saved["a"][1].responseStatus # saved["a"][2].responseStatus
    /\ saved["b"] = <<>>

\* the number of events of the sequence that have the id
Count(seq, id) == Cardinality({i \in 1..Len(seq) : seq[i].id = id})

\* C13: when a capture has completed without failure, every viewer session
\* that has been subscribed to the capture's topic since before the request
\* arrived was delivered exactly one push with the event's id, and a viewer
\* session that never subscribed to that topic was delivered none.
C13_OnePushPerSubscriber ==
    \A h \in Handlers :
        (pc[h] = "done" /\ fault[h] = "none")
        => \A v \in Viewers :
              /\ v \in watch[h]
                 => Count(delivered[v], local[h].webhookEvent.id) = 1
              /\ local[h].uuid \notin subs[v]
                 => Count(delivered[v], local[h].webhookEvent.id) = 0

\* a viewer session was delivered the push of a capture to its endpoint and
\* nothing for a capture to the other endpoint
C13_Witness ==
    \E h, g \in Handlers, v \in Viewers :
        /\ pc[h] = "done" /\ fault[h] = "none" /\ v \in watch[h]
        /\ Count(delivered[v], local[h].webhookEvent.id) = 1
        /\ pc[g] = "done" /\ fault[g] = "none" /\ local[g].uuid \notin subs[v]
        /\ vuuid[v] # ""
        /\ Count(delivered[v], local[g].webhookEvent.id) = 0

\* C14: in every state the displayed log of a viewer session holds no two
\* entries with the same event id.
C14_NoDuplicateIds ==
    \A v \in Viewers :
        \A i, j \in 1..Len(shown[v]) :
            i # j => shown[v][i].id # shown[v][j].id

\* every capture has finished without failure, and the viewer session has
\* applied its one fetch, which succeeded, and handled every push
Settled(v) ==
    /\ Quiescent /\ NoFault
    /\ vuuid[v] # "" /\ switched[v] = 0 /\ applied[v] = "ok"
    /\ fetches[v] = <<>> /\ pushes[v] = <<>>

\* C15: once the viewer session has processed the fetch response and the
\* pushes of all captures made so far, with no delete and no failure, its
\* displayed log equals what a fresh historical fetch returns.
C15_DisplayedEqualsFreshFetch ==
    \A v \in Viewers : Settled(v) => shown[v] = Fetch(vuuid[v])

C19_PushStep ==
    \A v \in Viewers :
        (pushes[v] # <<>> /\ Len(handled'[v]) = Len(handled[v]) + 1)
        => shown'[v] = IF Head(pushes[v]).uuid = vuuid[v]
                       THEN <<Head(pushes[v])>> \o shown[v]
                       ELSE shown[v]

\* C19: a push given to the Inbox is put at the head of the displayed log
\* if its event's uuid is the Inbox's uuid, and leaves the displayed log
\* unchanged otherwise.
C19_PushPrependedIffSameUuid == [][C19_PushStep]_vars

\* the Inbox was given one push for its uuid and one push for another uuid
C19_Witness ==
    \E v \in Viewers, i, j \in 1..NumHandlers :
        /\ i \in 1..Len(handled[v]) /\ j \in 1..Len(handled[v])
        /\ handled[v][i].data.uuid = handled[v][i].uuid
        /\ handled[v][j].data.uuid # handled[v][j].uuid

\* the ids of the events of a sequence
IdsOf(seq) == {seq[i].id : i \in 1..Len(seq)}

\* the step in which a viewer session's delete-one action completes
C17_DeleteStep ==
    \A v \in Viewers :
        (vdel[v].state = "awaiting" /\ vdel'[v].state = "done")
        => /\ \A i \in 1..Len(events'[vdel[v].uuid]) :
                 ParseEvent(events'[vdel[v].uuid][i].member).id # vdel[v].eventId
           /\ vdel[v].eventId \notin IdsOf(shown'[v])

\* C17: when a viewer session's delete-one action completes, started from
\* the inbox list or from the message viewer, the event is in neither the
\* Store log nor the displayed log.
C17_DeletedEverywhere == [][C17_DeleteStep]_vars

\* String.prototype.startsWith("text/") on the content types the model uses
StartsWithText(contentType) ==
    contentType \in {"text/plain", "text/plain; format=application/json"}

\* the body of a payload read as JSON, and null when it does not parse
JsonOrNull(payload) ==
    IF payload = "{\"x\":1}" THEN Json("{x:1}") ELSE Null

\* C18 as stated: the body is the parsed JSON value or null for a type that
\* contains application/json, else the mapping of the form fields for a type
\* that contains application/x-www-form-urlencoded, else the raw text for a
\* type that starts with text/, else the raw payload as text, null when empty.
C18_BodyByContentType ==
    probe.state = "parsed"
    => LET ct == probe.request.contentType
           payload == probe.request.payload
       IN  probe.body =
              IF Includes(ct, "application/json") THEN JsonOrNull(payload)
              ELSE IF Includes(ct, "application/x-www-form-urlencoded")
              THEN Form(payload)
              ELSE IF StartsWithText(ct) THEN Text(payload)
              ELSE IF payload = "" THEN Null ELSE Text(payload)

\* C18 amended: as stated, with the third case for every type that contains
\* text/ anywhere; such a type with an empty payload gives the empty text.
C18_BodyByContentTypeContainsText ==
    probe.state = "parsed"
    => LET ct == probe.request.contentType
           payload == probe.request.payload
       IN  probe.body =
              IF Includes(ct, "application/json") THEN JsonOrNull(payload)
              ELSE IF Includes(ct, "application/x-www-form-urlencoded")
              THEN Form(payload)
              ELSE IF Includes(ct, "text/") THEN Text(payload)
              ELSE IF payload = "" THEN Null ELSE Text(payload)

\* an empty payload of a type that has text/ inside and not at its start
\* was recorded as the empty text
C18_Witness ==
    /\ probe.state = "parsed"
    /\ probe.request.contentType = "multipart/related; type=\"text/xml\""
    /\ probe.request.payload = ""
    /\ probe.body = Text("")

\* the text appears, case-insensitively, in the method, the url, the
\* serialized headers, the serialized query or the serialized/raw body
InFiveFields(event, q) ==
    LET query == <<Lower(q)>>
    IN  \/ TextIncludes(ToLowerCase(<<event.method>>), query)
        \/ TextIncludes(ToLowerCase(event.url), query)
        \/ TextIncludes(ToLowerCase(StringifyMap(event.headers)), query)
        \/ TextIncludes(ToLowerCase(StringifyMap(event.query)), query)
        \/ TextIncludes(ToLowerCase(IF event.body.kind = "text"
                                    THEN <<event.body.val>>
                                    ELSE StringifyBody(event.body)), query)

\* C20: with a search text that is not blank, the list shows exactly the
\* events of the displayed log in which the text appears, case-insensitively,
\* in the method, the url, the serialized headers, the serialized query or
\* the serialized/raw body.
C20_SearchInFiveFields ==
    \A v \in Viewers :
        TrimText(searchQuery[v]) # ""
        => LET InFive(event) == InFiveFields(event, searchQuery[v])
           IN  filteredEvents(shown[v], searchQuery[v]) = SelectSeq(shown[v], InFive)

\* a server action returns in this step, a Store operation having thrown
FailedReturn == ret'.n # ret.n /\ ret'.failed

\* C21: when the Store operation of a server action throws, the action does
\* not throw to its caller: getWebhookEvents returns the empty list,
\* deleteWebhookEvent, deleteAllWebhookEvents and saveWebhookSettings return
\* false and getWebhookSettings returns null; the logs and the Settings
\* records of the Store are after the call what they were before it.
C21_FailedActionStep ==
    /\ FailedReturn
       => /\ ~ret'.threw
          /\ ret'.action = "getWebhookEvents" => ret'.events = <<>>
          /\ ret'.action \in {"deleteWebhookEvent", "deleteAllWebhookEvents",
                              "saveWebhookSettings"} => ret'.bool = FALSE
          /\ ret'.action = "getWebhookSettings"
             => /\ ret'.settings.state = "absent"
                /\ ret'.settings.value = NoValue
          /\ events' = events
          /\ settings' = settings
    \* the ZRANGE of a deleteWebhookEvent whose ZREM throws later
    /\ (del'.pc = "zrem" /\ del.pc # "zrem")
       => (events' = events /\ settings' = settings)

C21_StoreFailureIsCaught == [][C21_FailedActionStep]_vars

\* getWebhookEvents has returned [] for a log that holds events, its read
\* having thrown
C21_Witness ==
    /\ ret.failed
    /\ ret.action = "getWebhookEvents"
    /\ events[ret.uuid] # <<>>
    /\ ret.events = <<>>

\* C22: the connection signal follows the subscription: it shows connected
\* only while the subscription is connected, and while the subscription is
\* reconnecting or disconnected after an interruption it shows reconnecting
\* or disconnected.
C22_StatusFollowsSubscription ==
    \A v \in Viewers :
        /\ status[v] = "connected" => link[v] = "connected"
        /\ link[v] \in {"reconnecting", "disconnected"}
           => status[v] \in {"reconnecting", "disconnected"}

\* a handler of the capture route takes a step
CaptureStep == \E h \in Handlers : pc'[h] # pc[h]

\* C23: no step of a capture, successful or failed, creates, changes or
\* deletes a Settings record; the Settings records change only in a step in
\* which saveWebhookSettings returns true.
C23_SettingsStep ==
    /\ CaptureStep => settings' = settings
    /\ settings' # settings
       => /\ ret'.n # ret.n
          /\ ret'.action = "saveWebhookSettings"
          /\ ret'.bool
          /\ \A u \in UUIDS : u # ret'.uuid => settings'[u] = settings[u]

C23_CaptureLeavesSettings == [][C23_SettingsStep]_vars

\* a capture has read the Settings record that a save left for its
\* endpoint and has failed (the configured status cannot be responded
\* with); the record is what the capture read
C23_Witness ==
    \E h \in Handlers :
        /\ pc[h] = "done"
        /\ fault[h] = "respond"
        /\ seen[h].state = "present"
        /\ settings[local[h].uuid] = seen[h].value

\* the ids appended to the log of endpoint u so far
AppendedIds(u) == {appended[u][i] : i \in 1..Len(appended[u])}

\* C24: an event is published at most once, by the capture that made it,
\* after that capture's append succeeded and its trim step (the count, and
\* the removal when the count is above 50) completed without error; every
\* push delivered to a viewer session is of an event that was appended.
C24_PublishStep ==
    /\ \A u \in UUIDS :
          channel'[u] # channel[u]
          => \E h \in Handlers :
                /\ pc[h] = "emit"
                /\ local[h].uuid = u
                /\ fault[h] = "none"
                /\ channel'[u] = Append(channel[u], local[h].webhookEvent)
                /\ Count(channel[u], local[h].webhookEvent.id) = 0
                /\ local[h].webhookEvent.id \in AppendedIds(u)
    /\ \A h \in Handlers :
          (pc'[h] = "emit" /\ pc[h] # "emit")
          => LET u == local[h].uuid
             IN  /\ local[h].webhookEvent.id \in AppendedIds(u)
                 /\ \/ /\ pc[h] = "zcard"
                       /\ ZCard(events[u]) <= MaxEvents
                    \/ /\ pc[h] = "trim"
                       /\ local[h].count > MaxEvents
                       /\ events'[u] =
                             ZRemRangeByRank(events[u], TrimStop(local[h].count))
    /\ \A v \in Viewers : \A i \in 1..Len(delivered'[v]) :
          /\ delivered'[v][i].id \in AppendedIds(delivered'[v][i].uuid)
          /\ Count(delivered'[v], delivered'[v][i].id) = 1

C24_PublishedOnceAfterAppendAndTrim == [][C24_PublishStep]_vars

\* a viewer session was delivered the push of a capture that appended its
\* event and trimmed the log
C24_Witness ==
    \E h \in Handlers, v \in Viewers :
        /\ pc[h] = "done"
        /\ local[h].count > MaxEvents
        /\ Count(delivered[v], local[h].webhookEvent.id) = 1
        /\ Count(channel[local[h].uuid], local[h].webhookEvent.id) = 1

\* the step is one of an operation performed for an endpoint other than B:
\* a step of a capture, a step of a delete-one, or the return of a server
\* action
StepForOtherThan(B) ==
    \/ \E h \in Handlers : pc'[h] # pc[h] /\ local'[h].uuid # B
    \/ del'.pc # del.pc /\ del'.uuid # B
    \/ ret'.n # ret.n /\ ret'.uuid # B

\* the step is one of a delete-one or of a delete-all
DeleteStep ==
    \/ del'.pc # del.pc
    \/ /\ ret'.n # ret.n
       /\ ret'.action \in {"deleteWebhookEvent", "deleteAllWebhookEvents"}

\* C25: a step of a capture, delete-one, delete-all or settings save for one
\* endpoint leaves the event log and the Settings record of every other
\* endpoint as they were, and no step of a delete-one or delete-all changes
\* a Settings record.
C25_IsolationStep ==
    /\ \A B \in UUIDS :
          StepForOtherThan(B)
          => (events'[B] = events[B] /\ settings'[B] = settings[B])
    /\ DeleteStep => settings' = settings

C25_EndpointsAreIsolated == [][C25_IsolationStep]_vars

\* delete-all has emptied the log of endpoint b, which held a captured
\* event, and the log of endpoint a still holds its 50 events
C25_Witness ==
    /\ ret.action = "deleteAllWebhookEvents"
    /\ ret.uuid = "b"
    /\ ret.bool
    /\ erased["b"] # {}
    /\ events["b"] = <<>>
    /\ Len(events["a"]) = MaxEvents

====
